---- MODULE Spec2Model ----
(***************************************************************************)
(* RenderPool (splash/pool.py): a fixed number of slots pull render jobs   *)
(* from a twisted DeferredQueue.  Everything runs in one reactor thread,   *)
(* so each action below is one reactor turn: a call of render() by a       *)
(* producer, the firing of one execution unit's deferred, or the cancel()  *)
(* of a handle by its holder, together with every callback that fires      *)
(* synchronously inside it.                                                *)
(*                                                                         *)
(* The handlers are operators on a pool state: a record holding the fields *)
(* of the object and of its collaborators, the calls that are still to run *)
(* in this reactor turn (calls, a stack: the callbacks a fired Deferred    *)
(* runs synchronously, innermost first) and whether a Python exception is  *)
(* propagating (raised).  Run executes the stack until it is empty.        *)
(***************************************************************************)
EXTENDS Bags, FiniteSets, Integers, Sequences, TLC

\* Bounds of the model.
MaxSlots == 2
MaxJobs == 3

\* render_options.get_url() of the submitted jobs (two jobs may share one).
URLS == {"u1", "u2"}
\* What render.start(**kwargs) does: return with the unit running, or raise.
KWARGS == {"runs", "raises"}
\* Jobs are numbered in the order render() was called for them.
Jobs == 1..MaxJobs
\* What building the unit does (network_manager_factory() and rendercls(...)):
\* return a unit, or raise.
RENDERCLS == {"builds", "raises"}
\* The splash_proxy_factory_cls argument of __init__: None, a factory that
\* returns None for every profile, a factory that returns a proxy factory.
PROXY_CLS == {"None", "returns_none", "profiles"}
\* The proxy argument of render().
PROXIES == {"None", "p1"}

VARIABLES
    slots,       \* the slots argument of __init__
    active,      \* self.active: the units (by job) in the active set
    pending,     \* self.queue.pending: jobs put and not yet taken
    waiting,     \* self.queue.waiting: slots whose get() deferred is unfired
    njobs,       \* number of render() calls so far
    url,         \* job -> render_options.get_url()
    kwargs,      \* job -> behaviour of render.start(**kwargs)
    rendercls,   \* job -> behaviour of building the unit
    proxy,       \* job -> the proxy argument of render()
    splash_proxy_factory_cls,  \* self.splash_proxy_factory_cls
    splash_proxy_factory,      \* job -> the splash_proxy_factory put in the queue
    unit_proxy,  \* job -> the splash_proxy_factory its unit was built with
    pool_d,      \* job -> the completion handle render() returned
    attached,    \* job -> the slot bound into pool_d's _error/_close_render
                 \*        callbacks ({} while they are not added)
    deferred,    \* job -> render.deferred: "none", "pending", "called"
    fired,       \* job -> what render.deferred was fired with ("none" before)
    chained,     \* job -> the slots whose get() chain waits on render.deferred
    nstart,      \* job -> calls of render.start()
    nclose,      \* job -> calls of render.close()
    ncleanup,    \* job -> runs of _close_render
    startOrder,  \* jobs in the order _start_render was entered for them
    events,      \* what the handler of the last reactor turn did, in order
    stored,      \* value under debug_key in redis
    lastWrite,   \* "none", "ok" or "failed": outcome of the last redis SET
    redisUp,     \* whether redis accepts a SET now
    ref          \* the same pool fed the same calls, with a redis that never fails

vars == <<slots, active, pending, waiting, njobs, url, kwargs, rendercls, proxy,
          splash_proxy_factory_cls, splash_proxy_factory, unit_proxy, pool_d,
          attached, deferred, fired, chained, nstart, nclose, ncleanup,
          startOrder, events, stored, lastWrite, redisUp, ref>>

\* The pool state as one value, for the handlers below.
State ==
    [slots |-> slots, active |-> active, pending |-> pending, waiting |-> waiting,
     njobs |-> njobs, url |-> url, kwargs |-> kwargs, rendercls |-> rendercls,
     proxy |-> proxy, splash_proxy_factory_cls |-> splash_proxy_factory_cls,
     splash_proxy_factory |-> splash_proxy_factory, unit_proxy |-> unit_proxy,
     pool_d |-> pool_d, attached |-> attached, deferred |-> deferred,
     fired |-> fired, chained |-> chained, nstart |-> nstart, nclose |-> nclose, ncleanup |-> ncleanup,
     startOrder |-> startOrder, events |-> events, stored |-> stored,
     lastWrite |-> lastWrite, redisUp |-> redisUp, raised |-> FALSE,
     calls |-> <<>>]

Commit(st) ==
    /\ slots' = st.slots
    /\ active' = st.active
    /\ pending' = st.pending
    /\ waiting' = st.waiting
    /\ njobs' = st.njobs
    /\ url' = st.url
    /\ kwargs' = st.kwargs
    /\ rendercls' = st.rendercls
    /\ proxy' = st.proxy
    /\ splash_proxy_factory_cls' = st.splash_proxy_factory_cls
    /\ splash_proxy_factory' = st.splash_proxy_factory
    /\ unit_proxy' = st.unit_proxy
    /\ fired' = st.fired
    /\ pool_d' = st.pool_d
    /\ attached' = st.attached
    /\ deferred' = st.deferred
    /\ chained' = st.chained
    /\ nstart' = st.nstart
    /\ nclose' = st.nclose
    /\ ncleanup' = st.ncleanup
    /\ startOrder' = st.startOrder
    /\ events' = st.events
    /\ stored' = st.stored
    /\ lastWrite' = st.lastWrite
    /\ redisUp' = st.redisUp

\* A Deferred that was not fired, and one fired with a result.
Unfired == [called |-> FALSE, kind |-> "none", job |-> 0]
Fired(kind, j) == [called |-> TRUE, kind |-> kind, job |-> j]

\* A splash_proxy_factory: None, or the factory made for a profile.
NoProxyFactory == [factory |-> FALSE, profile |-> "None"]
ProxyFactory(p) == [factory |-> TRUE, profile |-> p]

\* urls of debug_update: the url of every unit in the active set (a set has no
\* order, so the list is taken as a bag).
UrlBag(st) ==
    LET us == {st.url[j] : j \in st.active}
    IN [u \in us |-> Cardinality({j \in st.active : st.url[j] = u})]

Log(st, e) == [st EXCEPT !.events = Append(@, e)]

\* The calls cs are made next, in this order, before the calls already due.
Call(st, cs) == [st EXCEPT !.calls = cs \o @]

\* Faulty variant: the SET outside try/except: its exception leaves debug_update.
redis_set_uncaught(st, urls) ==
    IF st.redisUp
    THEN [st EXCEPT !.stored = [written |-> TRUE, urls |-> urls], !.lastWrite = "ok"]
    ELSE [st EXCEPT !.lastWrite = "failed", !.raised = TRUE]

\* debug_update: publish the urls of the active set under debug_key.  A failing
\* SET is caught and logged.  (The 'ts' field of the payload is left out.)
redis_set(st, urls) ==
    IF st.redisUp
    THEN [st EXCEPT !.stored = [written |-> TRUE, urls |-> urls], !.lastWrite = "ok"]
    ELSE [st EXCEPT !.lastWrite = "failed"]

debug_update(st) ==
    redis_set(Log(st, [op |-> "publish", urls |-> UrlBag(st)]), UrlBag(st))

\* self.active.add(render); self.debug_update()
active_add(st, j, slot) ==
    debug_update(Log([st EXCEPT !.active = @ \cup {j}],
                     [op |-> "add", job |-> j, slot |-> slot,
                      urls |-> UrlBag([st EXCEPT !.active = @ \cup {j}])]))

\* Faulty variant: _close_render without self.debug_update().
active_remove_unpublished(st, j, slot) ==
    IF j \notin st.active
    THEN [st EXCEPT !.raised = TRUE]
    ELSE Log([st EXCEPT !.active = @ \ {j}],
             [op |-> "remove", job |-> j, slot |-> slot,
              urls |-> UrlBag([st EXCEPT !.active = @ \ {j}])])

\* Faulty variant: _close_render without self.active.remove(render).
active_remove_forgotten(st, j, slot) == debug_update(st)

\* self.active.remove(render); self.debug_update()
active_remove(st, j, slot) ==
    IF j \notin st.active
    THEN [st EXCEPT !.raised = TRUE]                \* set.remove: KeyError
    ELSE debug_update(Log([st EXCEPT !.active = @ \ {j}],
                          [op |-> "remove", job |-> j, slot |-> slot,
                           urls |-> UrlBag([st EXCEPT !.active = @ \ {j}])]))

\* Faulty variant: queue.get() hands over the newest pending job (pop() for pop(0)).
_wait_for_render_newest(st, slot) ==
    IF st.pending = <<>>
    THEN Log([st EXCEPT !.waiting = Append(@, slot)], [op |-> "get", slot |-> slot])
    ELSE Call(Log([st EXCEPT !.pending = SubSeq(@, 1, Len(@) - 1)],
                  [op |-> "get", slot |-> slot]),
              <<[f |-> "_start_render", job |-> st.pending[Len(st.pending)],
                 slot |-> slot]>>)

\* _wait_for_render(_, slot): queue.get() hands over the oldest pending job at
\* once (its callbacks then run at once), or leaves the slot's deferred at the
\* tail of queue.waiting.
_wait_for_render(st, slot) ==
    IF st.pending = <<>>
    THEN Log([st EXCEPT !.waiting = Append(@, slot)], [op |-> "get", slot |-> slot])
    ELSE Call(Log([st EXCEPT !.pending = Tail(@)], [op |-> "get", slot |-> slot]),
              <<[f |-> "_start_render", job |-> Head(st.pending), slot |-> slot]>>)

\* Faulty variant: d.addCallback(self._wait_for_render, slot), which a failure skips.
failed_get_chain_skipped(st, slot) == [st EXCEPT !.raised = FALSE]

\* d.addBoth(self._wait_for_render, slot), reached with the failure of
\* _start_render: addBoth runs its callback on a failure too.
failed_get_chain(st, slot) ==
    Call([st EXCEPT !.raised = FALSE], <<[f |-> "_wait_for_render", slot |-> slot]>>)

\* chainDeferred(pool_d), addErrback(_error), addBoth(_close_render), and on to
\* render.start(): callbacks added to a pool_d that was called already run at
\* once.
chain_pool_d(st, j, slot) ==
    IF st.raised
    THEN failed_get_chain(st, slot)      \* the exception leaves _start_render
    ELSE Call([st EXCEPT !.attached[j] = {slot}],
              IF st.pool_d[j].called
              THEN <<[f |-> "_close_render", job |-> j, slot |-> slot],
                     [f |-> "start", job |-> j, slot |-> slot]>>
              ELSE <<[f |-> "start", job |-> j, slot |-> slot]>>)

\* _start_render(slot_args, slot), the callback of queue.get(), to line 66:
\* render = rendercls(network_manager=self.network_manager_factory(), ...)
\* makes a unit with an unfired deferred, or raises: the exception leaves
\* _start_render before anything was done with pool_d.
_start_render(st, j, slot) ==
    IF st.rendercls[j] = "raises"
    THEN failed_get_chain(Log([st EXCEPT !.startOrder = Append(@, j)],
                              [op |-> "init", job |-> j, slot |-> slot]),
                          slot)
    ELSE chain_pool_d(
             active_add(Log([st EXCEPT !.startOrder = Append(@, j),
                                       !.deferred[j] = "pending",
                                       !.unit_proxy[j] = {st.splash_proxy_factory[j]}],
                            [op |-> "init", job |-> j, slot |-> slot]),
                        j, slot),
             j, slot)

\* Faulty variant: a bare raise, without render.deferred.errback().
start_raised_no_errback(st, j, slot) ==
    Call(st, <<[f |-> "failed_get_chain", slot |-> slot]>>)

\* Faulty variant: except: pool_d.errback(); raise: the handle is failed and
\* the unit's deferred is left unfired.
start_raised_errbacks_pool_d(st, j, slot) ==
    Call(st, <<[f |-> "pool_d_fire", job |-> j, kind |-> "failure"],
               [f |-> "failed_get_chain", slot |-> slot]>>)

\* except: render.deferred.errback(); raise.  errback() on a deferred that was
\* called raises AlreadyCalledError instead.  Either way an exception leaves
\* _start_render and the get() chain goes on with it.
start_raised(st, j, slot) ==
    Call(st, IF st.deferred[j] = "pending"
             THEN <<[f |-> "deferred_fire", job |-> j, kind |-> "failure"],
                    [f |-> "failed_get_chain", slot |-> slot]>>
             ELSE <<[f |-> "failed_get_chain", slot |-> slot]>>)

\* Faulty variant: _start_render returns None: the get() chain never waits for the unit.
start_returned_none(st, j, slot) ==
    Call(st, <<[f |-> "_wait_for_render", slot |-> slot]>>)

\* return render.deferred: the get() chain waits for an unfired deferred and
\* goes on at once with one that was called.
start_returned(st, j, slot) ==
    IF st.deferred[j] = "pending"
    THEN [st EXCEPT !.chained[j] = {slot}]
    ELSE Call(st, <<[f |-> "_wait_for_render", slot |-> slot]>>)

\* _start_render from line 68: render.start(**kwargs)
render_start(st, j, slot) ==
    IF st.kwargs[j] = "raises"
    THEN start_raised(Log([st EXCEPT !.nstart[j] = @ + 1],
                          [op |-> "start", job |-> j, slot |-> slot]), j, slot)
    ELSE start_returned(Log([st EXCEPT !.nstart[j] = @ + 1],
                            [op |-> "start", job |-> j, slot |-> slot]), j, slot)

\* render.deferred.callback(result) / .errback(failure): the deferred's
\* callbacks run in the order they were added: chainDeferred(pool_d) first,
\* then the get() chain that _start_render returned the deferred to.
deferred_fire(st, j, kind) ==
    Call([st EXCEPT !.deferred[j] = "called", !.fired[j] = kind],
         <<[f |-> "pool_d_fire", job |-> j, kind |-> kind],
           [f |-> "get_chain", job |-> j]>>)

\* Faulty variant: d.addErrback(self._wait_for_render, slot), which the result
\* of a unit that succeeded skips.
get_chain_addErrback(st, j) ==
    IF st.chained[j] = {}
    THEN st
    ELSE Call([st EXCEPT !.chained[j] = {}],
              IF st.fired[j] = "value"
              THEN <<>>
              ELSE <<[f |-> "_wait_for_render",
                      slot |-> CHOOSE s \in st.chained[j] : TRUE]>>)

\* The get() chain of the slot waiting on render.deferred goes on to
\* d.addBoth(self._wait_for_render, slot).
get_chain(st, j) ==
    IF st.chained[j] = {}
    THEN st
    ELSE Call([st EXCEPT !.chained[j] = {}],
              <<[f |-> "_wait_for_render", slot |-> CHOOSE s \in st.chained[j] : TRUE]>>)

\* Faulty variant: pool_d.addCallback(self._close_render, ...), which a failure skips.
pool_d_fire_addCallback(st, j, kind) ==
    IF st.pool_d[j].called
    THEN st
    ELSE Call([st EXCEPT !.pool_d[j] = Fired(kind, j)],
              IF st.attached[j] = {} \/ kind # "value"
              THEN <<>>
              ELSE <<[f |-> "_close_render", job |-> j,
                      slot |-> CHOOSE s \in st.attached[j] : TRUE]>>)

\* Faulty variant: _error returns None, which turns the failure of the handle
\* into a result.
pool_d_fire_error_swallowed(st, j, kind) ==
    IF st.pool_d[j].called
    THEN st
    ELSE Call([st EXCEPT !.pool_d[j] = Fired("value", j)],
              IF st.attached[j] = {}
              THEN <<>>
              ELSE <<[f |-> "_close_render", job |-> j,
                      slot |-> CHOOSE s \in st.attached[j] : TRUE]>>)

\* pool_d.callback(result) / pool_d.errback(failure), as chainDeferred calls
\* them and as pool_d.cancel() does with a CancelledError: a handle that was
\* called already keeps its result (a cancelled handle swallows the firing
\* that comes after); otherwise its callbacks run: _error (logs, returns the
\* failure), then _close_render.
pool_d_fire(st, j, kind) ==
    IF st.pool_d[j].called
    THEN st
    ELSE Call([st EXCEPT !.pool_d[j] = Fired(kind, j)],
              IF st.attached[j] = {}
              THEN <<>>
              ELSE <<[f |-> "_close_render", job |-> j,
                      slot |-> CHOOSE s \in st.attached[j] : TRUE]>>)

\* Faulty variant: _close_render without render.deferred.cancel().
deferred_cancel_omitted(st, j, slot) ==
    IF st.raised
    THEN [st EXCEPT !.raised = FALSE, !.pool_d[j] = Fired("failure", 0)]
    ELSE Call(st, <<[f |-> "close", job |-> j, slot |-> slot]>>)

\* render.deferred.cancel(), then on to render.close(): cancel() does nothing
\* to a deferred that was called and fires an unfired one with CancelledError.
deferred_cancel(st, j, slot) ==
    IF st.raised
    THEN \* the exception of a callback becomes the result of pool_d
         [st EXCEPT !.raised = FALSE, !.pool_d[j] = Fired("failure", 0)]
    ELSE Call(Log(st, [op |-> "cancel", job |-> j, slot |-> slot,
                       was |-> st.deferred[j]]),
              IF st.deferred[j] = "pending"
              THEN <<[f |-> "deferred_fire", job |-> j, kind |-> "cancelled"],
                     [f |-> "close", job |-> j, slot |-> slot]>>
              ELSE <<[f |-> "close", job |-> j, slot |-> slot]>>)

\* _close_render(_, render, slot), the addBoth callback of pool_d, to line 88.
_close_render(st, j, slot) ==
    deferred_cancel(active_remove([st EXCEPT !.ncleanup[j] = @ + 1], j, slot),
                    j, slot)

\* _close_render from line 89: render.close()
render_close(st, j, slot) ==
    Log([st EXCEPT !.nclose[j] = @ + 1], [op |-> "close", job |-> j, slot |-> slot])

\* One call of the stack.
Step(st, c) ==
    CASE c.f = "_wait_for_render" -> _wait_for_render(st, c.slot)
      [] c.f = "_start_render" -> _start_render(st, c.job, c.slot)
      [] c.f = "start" -> render_start(st, c.job, c.slot)
      [] c.f = "failed_get_chain" -> failed_get_chain(st, c.slot)
      [] c.f = "deferred_fire" -> deferred_fire(st, c.job, c.kind)
      [] c.f = "pool_d_fire" -> pool_d_fire(st, c.job, c.kind)
      [] c.f = "get_chain" -> get_chain(st, c.job)
      [] c.f = "_close_render" -> _close_render(st, c.job, c.slot)
      [] c.f = "close" -> render_close(st, c.job, c.slot)

\* The first call of the stack is made.
RunNext(st) == Step([st EXCEPT !.calls = Tail(@)], Head(st.calls))

RECURSIVE Run(_)
\* Runs the calls of this reactor turn to the end.  (The state is bound by a
\* set constructor, so that it is computed once at each call.)
Run(st0) ==
    CHOOSE r \in {IF st.calls = <<>> THEN st ELSE Run(RunNext(st)) : st \in {st0}} : TRUE

\* Faulty variant: a DeferredQueue(size=1): put() on a full queue raises QueueOverflow.
queue_put_bounded(st, j) ==
    IF st.waiting # <<>>
    THEN Call([st EXCEPT !.waiting = Tail(@)],
              <<[f |-> "_start_render", job |-> j, slot |-> Head(st.waiting)]>>)
    ELSE IF Len(st.pending) < 1
         THEN [st EXCEPT !.pending = Append(@, j)]
         ELSE st

\* Faulty variant: put() fires the newest waiting get() (waiting.pop() for
\* waiting.pop(0)).
queue_put_newest_waiter(st, j) ==
    IF st.waiting # <<>>
    THEN Call([st EXCEPT !.waiting = SubSeq(@, 1, Len(@) - 1)],
              <<[f |-> "_start_render", job |-> j,
                 slot |-> st.waiting[Len(st.waiting)]]>>)
    ELSE [st EXCEPT !.pending = Append(@, j)]

\* Faulty variant: put() fires the oldest waiting get() and leaves it in
\* queue.waiting (waiting[0] for waiting.pop(0)).
queue_put_keeps_waiter(st, j) ==
    IF st.waiting # <<>>
    THEN Call(st, <<[f |-> "_start_render", job |-> j, slot |-> Head(st.waiting)]>>)
    ELSE [st EXCEPT !.pending = Append(@, j)]

\* queue.put(job): fires the oldest waiting get(), or appends to pending.
queue_put(st, j) ==
    IF st.waiting # <<>>
    THEN Call([st EXCEPT !.waiting = Tail(@)],
              <<[f |-> "_start_render", job |-> j, slot |-> Head(st.waiting)]>>)
    ELSE [st EXCEPT !.pending = Append(@, j)]

\* Faulty variant: the default factory hands the profile name through
\* (lambda profile_name: profile_name).
call_proxy_factory_cls_identity(cls, p) ==
    IF cls = "profiles" THEN ProxyFactory(p)
    ELSE IF cls = "lambda_none" /\ p # "None" THEN ProxyFactory(p)
    ELSE NoProxyFactory

\* self.splash_proxy_factory_cls(proxy): the default lambda and a factory that
\* returns None give None; a factory of proxy factories makes one for the
\* profile.
call_proxy_factory_cls(cls, p) ==
    IF cls = "profiles" THEN ProxyFactory(p) ELSE NoProxyFactory

\* render(rendercls, render_options, proxy, **kwargs)
render(st, rc, u, p, kw) ==
    Run(queue_put(Log([st EXCEPT !.njobs = @ + 1, !.url[st.njobs + 1] = u,
                                 !.kwargs[st.njobs + 1] = kw,
                                 !.rendercls[st.njobs + 1] = rc,
                                 !.proxy[st.njobs + 1] = p,
                                 !.splash_proxy_factory[st.njobs + 1] =
                                     call_proxy_factory_cls(
                                         st.splash_proxy_factory_cls, p),
                                 !.pool_d[st.njobs + 1] = Unfired],
                      [op |-> "put", job |-> st.njobs + 1]),
                  st.njobs + 1))

\* splash_proxy_factory_cls or (lambda profile_name: None)
or_default_lambda(cls) == IF cls = "None" THEN "lambda_none" ELSE cls

\* The fields before __init__'s loop.
Blank(n, cls, up) ==
    [slots |-> n, active |-> {}, pending |-> <<>>, waiting |-> <<>>,
     njobs |-> 0, url |-> [j \in Jobs |-> ""], kwargs |-> [j \in Jobs |-> ""],
     rendercls |-> [j \in Jobs |-> ""], proxy |-> [j \in Jobs |-> ""],
     splash_proxy_factory_cls |-> or_default_lambda(cls),
     splash_proxy_factory |-> [j \in Jobs |-> NoProxyFactory],
     unit_proxy |-> [j \in Jobs |-> {}], fired |-> [j \in Jobs |-> "none"],
     pool_d |-> [j \in Jobs |-> Unfired], attached |-> [j \in Jobs |-> {}],
     deferred |-> [j \in Jobs |-> "none"], chained |-> [j \in Jobs |-> {}],
     nstart |-> [j \in Jobs |-> 0], nclose |-> [j \in Jobs |-> 0],
     ncleanup |-> [j \in Jobs |-> 0], startOrder |-> <<>>, events |-> <<>>,
     stored |-> [written |-> FALSE, urls |-> <<>>], lastWrite |-> "none",
     redisUp |-> up, raised |-> FALSE, calls |-> <<>>]

\* __init__(slots, ...): for n in range(slots): self._wait_for_render(None, n)
__init__(n, cls, up) ==
    Run(Call(Blank(n, cls, up), [k \in 1..n |-> [f |-> "_wait_for_render", slot |-> k - 1]]))

\* The state a handler starts from: the events of the turn before are dropped.
Turn(st) == [st EXCEPT !.events = <<>>]

\* The unit's own code fires render.deferred.
unit_fires(st, j, kind) ==
    Run(Call(st, <<[f |-> "deferred_fire", job |-> j, kind |-> kind]>>))

\* The holder of the handle render() returned calls pool_d.cancel(): pool_d
\* has no canceller, so cancel() is errback(CancelledError).
pool_d_cancel(st, j) ==
    Run(Call(st, <<[f |-> "pool_d_fire", job |-> j, kind |-> "cancelled"]>>))

----------------------------------------------------------------------------
InitFrom(st) ==
    /\ slots = st.slots
    /\ active = st.active
    /\ pending = st.pending
    /\ waiting = st.waiting
    /\ njobs = st.njobs
    /\ url = st.url
    /\ kwargs = st.kwargs
    /\ rendercls = st.rendercls
    /\ proxy = st.proxy
    /\ splash_proxy_factory_cls = st.splash_proxy_factory_cls
    /\ splash_proxy_factory = st.splash_proxy_factory
    /\ unit_proxy = st.unit_proxy
    /\ fired = st.fired
    /\ pool_d = st.pool_d
    /\ attached = st.attached
    /\ deferred = st.deferred
    /\ chained = st.chained
    /\ nstart = st.nstart
    /\ nclose = st.nclose
    /\ ncleanup = st.ncleanup
    /\ startOrder = st.startOrder
    /\ events = st.events
    /\ stored = st.stored
    /\ lastWrite = st.lastWrite
    /\ redisUp = st.redisUp

\* The pool after __init__(n, ..., cls, ...), with redis up or down.
Constructed(n, cls, up) ==
    /\ InitFrom(__init__(n, cls, up))
    /\ ref = __init__(n, cls, TRUE)

Init == \E n \in 0..MaxSlots : Constructed(n, "None", TRUE)

\* A producer calls render(rendercls, render_options, proxy, **kwargs): the
\* unit is built as rc says, the url is u, start() does kw.
RenderJob(rc, u, p, kw) ==
    /\ njobs < MaxJobs
    /\ \E st \in {render(Turn(State), rc, u, p, kw)} : Commit(st)
    /\ ref' = render(Turn(ref), rc, u, p, kw)

\* render() for a job whose unit can be built, without a proxy.
Render(u, kw) == RenderJob("builds", u, "None", kw)

\* The holder of job j's handle cancels it.
Cancel(j) ==
    /\ j <= njobs
    /\ ~pool_d[j].called
    /\ \E st \in {pool_d_cancel(Turn(State), j)} : Commit(st)
    /\ ref' = pool_d_cancel(Turn(ref), j)

\* The unit of job j, running (its start() returned and a slot waits on its
\* deferred), fires its deferred with a value or a failure.
UnitFires(j, kind) ==
    /\ deferred[j] = "pending"
    /\ chained[j] # {}
    /\ \E st \in {unit_fires(Turn(State), j, kind)} : Commit(st)
    /\ ref' = IF ref.deferred[j] = "pending"
              THEN unit_fires(Turn(ref), j, kind)
              ELSE ref

\* redis becomes unreachable, or reachable again.
RedisOutage ==
    /\ redisUp
    /\ redisUp' = FALSE
    /\ UNCHANGED <<slots, active, pending, waiting, njobs, url, kwargs, rendercls,
                   proxy, splash_proxy_factory_cls, splash_proxy_factory,
                   unit_proxy, pool_d, attached, deferred, fired, chained, nstart,
                   nclose, ncleanup, startOrder, events, stored, lastWrite, ref>>

RedisBack ==
    /\ ~redisUp
    /\ redisUp' = TRUE
    /\ UNCHANGED <<slots, active, pending, waiting, njobs, url, kwargs, rendercls,
                   proxy, splash_proxy_factory_cls, splash_proxy_factory,
                   unit_proxy, pool_d, attached, deferred, fired, chained, nstart,
                   nclose, ncleanup, startOrder, events, stored, lastWrite, ref>>

Next ==
    \/ \E u \in URLS, kw \in KWARGS : Render(u, kw)
    \/ \E j \in Jobs : UnitFires(j, "value")
    \/ \E j \in Jobs : UnitFires(j, "failure")

\* The pool with a redis that is reachable throughout.
Spec == Init /\ [][Next]_vars

\* The pool with a redis that may be unreachable at any time.
InitRedis == \E n \in 0..MaxSlots, up \in BOOLEAN : Constructed(n, "None", up)

NextRedis ==
    \/ Next
    \/ RedisOutage
    \/ RedisBack

SpecRedis == InitRedis /\ [][NextRedis]_vars

\* The pool for the progress of the jobs: every unit that was started fires
\* its deferred in the end.  The url of a job, which only debug_update reads,
\* is the same for all jobs here.
NextLive ==
    \/ \E kw \in KWARGS : Render("u1", kw)
    \/ \E j \in Jobs : UnitFires(j, "value")
    \/ \E j \in Jobs : UnitFires(j, "failure")

LiveSpec ==
    /\ Init
    /\ [][NextLive]_vars
    /\ \A j \in Jobs : WF_vars(UnitFires(j, "value") \/ UnitFires(j, "failure"))

\* The pool whose callers may cancel the handles render() gave them, and
\* whose jobs may fail to build their unit.
NextCancel ==
    \/ \E rc \in RENDERCLS, kw \in KWARGS : RenderJob(rc, "u1", "None", kw)
    \/ \E j \in Jobs : UnitFires(j, "value")
    \/ \E j \in Jobs : UnitFires(j, "failure")
    \/ \E j \in Jobs : Cancel(j)

SpecCancel == Init /\ [][NextCancel]_vars

\* The pool whose jobs may fail to build their unit.
NextFault ==
    \/ \E rc \in RENDERCLS, kw \in KWARGS : RenderJob(rc, "u1", "None", kw)
    \/ \E j \in Jobs : UnitFires(j, "value")
    \/ \E j \in Jobs : UnitFires(j, "failure")

SpecFault == Init /\ [][NextFault]_vars

\* Pools made with each kind of proxy factory, and jobs with each proxy.
InitProxy == \E n \in 1..MaxSlots, cls \in PROXY_CLS : Constructed(n, cls, TRUE)

NextProxy ==
    \/ \E p \in PROXIES, kw \in KWARGS : RenderJob("builds", "u1", p, kw)
    \/ \E j \in Jobs : UnitFires(j, "value")
    \/ \E j \in Jobs : UnitFires(j, "failure")

SpecProxy == InitProxy /\ [][NextProxy]_vars

----------------------------------------------------------------------------
\* Helpers of the properties.
Range(q) == {q[i] : i \in 1..Len(q)}
Submitted == 1..njobs
SlotSet == {s \in 0..MaxSlots : s < slots}
\* The unit of job j came to its end: its start() raised, or its deferred fired.
Ended(j) == nstart[j] >= 1 /\ (kwargs[j] = "raises" \/ deferred[j] = "called")

\* C1: the active set never holds more units than the pool has slots.
C1_ActiveAtMostSlots == Cardinality(active) <= slots

\* A full pool with a job queued behind it, after an earlier failure.
C1_Witness ==
    /\ slots >= 1
    /\ Cardinality(active) = slots
    /\ pending # <<>>
    /\ \E j \in Submitted : pool_d[j].kind = "failure"

\* C2: jobs enter _start_render in the order render() was called for them:
\* the k-th job started is the k-th job submitted.
C2_StartInSubmissionOrder ==
    \A k \in 1..Len(startOrder) : startOrder[k] = k

\* Three jobs submitted to a one-slot pool were started one after the other.
C2_Witness == slots = 1 /\ startOrder = <<1, 2, 3>>

\* C3: a job whose start() raised has a handle settled with its failure, is
\* out of the active set, and its slot is not lost: every slot is at any time
\* either waiting on queue.get() or the one slot of a unit in the active set.
C3_StartFaultFreesSlot ==
    /\ \A j \in Submitted :
          (nstart[j] >= 1 /\ kwargs[j] = "raises")
              => (pool_d[j] = Fired("failure", j) /\ j \notin active)
    /\ \A s \in SlotSet :
          \/ /\ s \in Range(waiting)
             /\ \A j \in active : s \notin chained[j]
          \/ /\ s \notin Range(waiting)
             /\ Cardinality({j \in active : chained[j] = {s}}) = 1
    /\ Len(waiting) = Cardinality(Range(waiting))

\* On a one-slot pool job 1 raised in start() and job 2, submitted after it,
\* was started by the same slot and succeeded.
C3_Witness ==
    /\ slots = 1
    /\ kwargs[1] = "raises" /\ pool_d[1] = Fired("failure", 1)
    /\ njobs >= 2 /\ attached[2] = {0} /\ pool_d[2] = Fired("value", 2)

\* C4: _close_render ran exactly once, and close() was called exactly once,
\* for every job whose unit came to its end (by a value, a failure or a
\* raising start()), and not at all for any other job.
C4_CleanupExactlyOnce ==
    \A j \in Jobs :
        /\ Ended(j) => (ncleanup[j] = 1 /\ nclose[j] = 1 /\ j \notin active)
        /\ ~Ended(j) => (ncleanup[j] = 0 /\ nclose[j] = 0)

\* One job ended with a value, one with a failure, one raised in start().
C4_Witness ==
    /\ \E j \in Submitted : pool_d[j] = Fired("value", j) /\ ncleanup[j] = 1
    /\ \E j \in Submitted :
          kwargs[j] = "runs" /\ pool_d[j] = Fired("failure", j) /\ ncleanup[j] = 1
    /\ \E j \in Submitted :
          kwargs[j] = "raises" /\ pool_d[j] = Fired("failure", j) /\ ncleanup[j] = 1

\* C5: once the queue is empty and every submitted job's handle is settled,
\* the active set is empty.
C5_AllSettledActiveEmpty ==
    (pending = <<>> /\ \A j \in Submitted : pool_d[j].called) => active = {}

\* All MaxJobs jobs settled, some with a value and some with a failure.
C5_Witness ==
    /\ njobs = MaxJobs /\ pending = <<>>
    /\ \A j \in Submitted : pool_d[j].called
    /\ \E j \in Submitted : pool_d[j].kind = "value"
    /\ \E j \in Submitted : pool_d[j].kind = "failure"

\* The pool without what the redis write decides.
View(st) ==
    [active |-> st.active, pending |-> st.pending, waiting |-> st.waiting,
     njobs |-> st.njobs, pool_d |-> st.pool_d, attached |-> st.attached,
     deferred |-> st.deferred, chained |-> st.chained, nstart |-> st.nstart,
     nclose |-> st.nclose, ncleanup |-> st.ncleanup,
     startOrder |-> st.startOrder, events |-> st.events]

\* C6: in every reactor turn each add to and each remove from the active set
\* is followed at once by a publish of the urls of the units then in the set;
\* and when the last write was accepted (or none was made yet) the stored
\* snapshot is the urls of the active set (nothing stored: an empty set).
C6_SnapshotFollowsActive ==
    /\ \A i \in 1..Len(events) :
          events[i].op \in {"add", "remove"} =>
              /\ i < Len(events)
              /\ events[i + 1].op = "publish"
              /\ events[i + 1].urls = events[i].urls
    /\ lastWrite = "ok" => (stored.written /\ stored.urls = UrlBag(State))
    /\ lastWrite = "none" => (~stored.written /\ active = {})

\* A turn that removed one unit and added the next, after which the stored
\* snapshot holds the one url of the two units in the active set twice.
C6_Witness ==
    /\ lastWrite = "ok"
    /\ \E i \in 1..Len(events) : events[i].op = "remove"
    /\ \E i \in 1..Len(events) : events[i].op = "add"
    /\ \E u \in URLS : stored.urls = (u :> 2)

\* C7: the pool behaves as the same pool with a redis that never fails, fed
\* the same calls: the jobs started and their order, the active set, the
\* queue, every handle's outcome and every step of every handler are the same.
C7_RedisFailureChangesNothing == View(State) = View(ref)

\* Every write failed and nothing was ever stored, and all MaxJobs jobs have
\* run, a job with a value among them.
C7_Witness ==
    /\ lastWrite = "failed" /\ ~stored.written
    /\ njobs = MaxJobs
    /\ \A j \in Submitted : pool_d[j].called /\ nstart[j] = 1
    /\ \E j \in Submitted : pool_d[j] = Fired("value", j)

\* C8 (as claimed): no pool with zero slots exists in which a submitted job
\* sits in the queue, because __init__ rejects slots = 0.
C8_ZeroSlotsRejected == ~(slots = 0 /\ pending # <<>>)

\* C9: a render() call made while no slot waits on queue.get() appends the job
\* to the tail of the queue, whatever its length, leaves the new handle
\* unsettled, and changes neither the active set nor any job's unit, handle,
\* slot or start/cleanup counts nor the order of the jobs started.
C9_RenderOnlyAppends ==
    [][(njobs' = njobs + 1 /\ waiting = <<>>) =>
          /\ pending' = Append(pending, njobs')
          /\ pool_d' = [pool_d EXCEPT ![njobs'] = Unfired]
          /\ ~pool_d'[njobs'].called
          /\ waiting' = waiting
          /\ active' = active
          /\ deferred' = deferred
          /\ chained' = chained
          /\ attached' = attached
          /\ nstart' = nstart
          /\ nclose' = nclose
          /\ ncleanup' = ncleanup
          /\ startOrder' = startOrder
          /\ events' = <<[op |-> "put", job |-> njobs']>>]_vars

\* render() has just queued a second job behind a busy one-slot pool.
C9_Witness ==
    /\ slots = 1 /\ Cardinality(active) = 1
    /\ Len(pending) = 2 /\ pending[2] = njobs
    /\ events = <<[op |-> "put", job |-> njobs]>>
    /\ ~pool_d[njobs].called

\* C10: on a pool with at least one slot (the pool without slots is C8's),
\* when every started unit fires its deferred in the end, every submitted job
\* is started in the end and its handle settles, whatever happened to the
\* jobs before it.
C10_EveryJobSettles ==
    \A j \in Jobs :
        (slots >= 1 /\ njobs >= j) ~> (nstart[j] >= 1 /\ pool_d[j].called)

\* On a one-slot pool job 1 raised in start(), job 2 failed in execution and
\* job 3, queued behind them, ran and succeeded.
C10_Witness ==
    /\ slots = 1 /\ njobs = 3
    /\ kwargs[1] = "raises" /\ pool_d[1] = Fired("failure", 1)
    /\ kwargs[2] = "runs" /\ pool_d[2] = Fired("failure", 2)
    /\ nstart[3] = 1 /\ pool_d[3] = Fired("value", 3)

\* C11: a pool made with no proxy factory (None), like a pool made with a
\* factory that returns None, queues None as the splash_proxy_factory of every
\* job and builds every unit with None, whatever proxy render() was given.
C11_NoProxyFactoryGivesNone ==
    splash_proxy_factory_cls \in {"lambda_none", "returns_none"} =>
        \A j \in Submitted :
            /\ splash_proxy_factory[j] = NoProxyFactory
            /\ unit_proxy[j] \subseteq {NoProxyFactory}

\* A pool made with None built the unit of a job submitted with proxy "p1"
\* and the unit of a job submitted without one.
C11_Witness ==
    /\ splash_proxy_factory_cls = "lambda_none"
    /\ \E j \in Submitted : proxy[j] = "p1" /\ unit_proxy[j] = {NoProxyFactory}
    /\ \E j \in Submitted : proxy[j] = "None" /\ unit_proxy[j] = {NoProxyFactory}

\* C12: every unit in the active set has one slot of the pool, no two units
\* in the set have the same slot, and within a reactor turn a slot adds a unit
\* to the set only after the unit it added before was removed, whether that
\* unit was in the set when the turn began or was added in this turn.
C12_SlotHoldsOneJob ==
    /\ [](\A j \in active : attached[j] # {} /\ attached[j] \subseteq SlotSet)
    /\ [](\A s \in SlotSet : Cardinality({j \in active : attached[j] = {s}}) <= 1)
    /\ [][\A i \in 1..Len(events') :
            events'[i].op = "add" =>
                /\ \A j \in active :
                      attached[j] = {events'[i].slot} =>
                          \E k \in 1..(i - 1) :
                              events'[k].op = "remove" /\ events'[k].job = j
                /\ \A h \in 1..(i - 1) :
                      (events'[h].op = "add" /\ events'[h].slot = events'[i].slot) =>
                          \E k \in (h + 1)..(i - 1) :
                              /\ events'[k].op = "remove"
                              /\ events'[k].job = events'[h].job]_vars

\* Both slots of a two-slot pool hold a unit, and one of them holds its
\* second: the turn that removed its first unit added the unit it holds now.
C12_Witness ==
    /\ slots = 2 /\ Cardinality(active) = 2
    /\ \E i, k \in 1..Len(events) :
          /\ i < k
          /\ events[i].op = "remove" /\ events[k].op = "add"
          /\ events[i].slot = events[k].slot
          /\ events[k].job \in active

\* C13 (as claimed): the Closing steps of a job run in the order remove,
\* publish, cancel, close, and a slot issues its next queue.get() only after
\* the close() of the unit it had: no get of the slot lies between the cancel
\* and the close of its previous job.
C13_CloseBeforeNextGet ==
    /\ \A k \in 1..Len(events) :
          events[k].op = "remove" =>
              /\ k + 2 <= Len(events)
              /\ events[k + 1].op = "publish"
              /\ events[k + 2].op = "cancel" /\ events[k + 2].job = events[k].job
              /\ \E c \in (k + 3)..Len(events) :
                    events[c].op = "close" /\ events[c].job = events[k].job
    /\ \A i \in 1..Len(events) :
          events[i].op = "get" =>
              \A k \in 1..(i - 1) :
                  (events[k].op = "cancel" /\ events[k].slot = events[i].slot) =>
                      \E c \in (k + 1)..(i - 1) :
                          events[c].op = "close" /\ events[c].job = events[k].job

\* C14: every submitted job is either once in the queue or was handed once to
\* _start_render, never both and never neither; a job that arrives while slots
\* wait on queue.get() is handed, in the turn of its render(), to the slot
\* whose get() was issued first and to no other, and the slots behind it keep
\* their order; and the k-th job of a pool, for k up to the number of slots,
\* goes to slot k-1.
C14_OldestWaiterServed ==
    /\ [](\A j \in Submitted :
            Cardinality({i \in 1..Len(pending) : pending[i] = j})
                + Cardinality({i \in 1..Len(startOrder) : startOrder[i] = j}) = 1)
    /\ [](\A j \in Submitted : (j <= slots /\ attached[j] # {}) => attached[j] = {j - 1})
    /\ [][(njobs' = njobs + 1 /\ waiting # <<>>) =>
            /\ Len(events') >= 2
            /\ events'[2] = [op |-> "init", job |-> njobs', slot |-> Head(waiting)]
            /\ Cardinality({i \in 1..Len(events') : events'[i].op = "init"}) = 1
            /\ Len(waiting') >= Len(waiting) - 1
            /\ SubSeq(waiting', 1, Len(waiting) - 1) = Tail(waiting)
            /\ pending' = pending
            /\ startOrder' = Append(startOrder, njobs')]_vars
    /\ [][(njobs' = njobs + 1 /\ njobs' <= slots) =>
            (waiting # <<>> /\ Head(waiting) = njobs' - 1)]_vars

\* On a two-slot pool job 2 ended before job 1 did, so slot 1 waited before
\* slot 0, and job 3 went to slot 1 while slot 0 waits on.
C14_Witness ==
    /\ slots = 2
    /\ attached[1] = {0} /\ attached[2] = {1} /\ attached[3] = {1}
    /\ waiting = <<0>> /\ active = {3}

\* C15 (as claimed): whenever _close_render calls render.deferred.cancel(),
\* that deferred was fired already.
C15_CancelOnlyAfterSettled ==
    \A i \in 1..Len(events) : events[i].op = "cancel" => events[i].was = "called"

\* C15 (amended): _close_render calls render.deferred.cancel() once the handle
\* is settled, and the deferred is still unfired then exactly when the handle
\* was cancelled by its holder; a handle settled by the unit's deferred has
\* that deferred's outcome after the cancel, a cancelled one its cancellation.
C15_CancelPreemptsOnlyCancelledJobs ==
    \A i \in 1..Len(events) :
        events[i].op = "cancel" =>
            /\ pool_d[events[i].job].called
            /\ ncleanup[events[i].job] = 1
            /\ events[i].was = "pending" <=> pool_d[events[i].job].kind = "cancelled"
            /\ events[i].was = "called" =>
                  pool_d[events[i].job] = Fired(fired[events[i].job], events[i].job)

\* In one turn the cleanup of a cancelled job cancelled its running unit and
\* the cleanup of the job the slot took next, whose start() raised, found the
\* unit's deferred fired.
C15_Witness ==
    \E i, k \in 1..Len(events) :
        /\ events[i].op = "cancel" /\ events[i].was = "pending"
        /\ events[k].op = "cancel" /\ events[k].was = "called"
        /\ nstart[events[i].job] = 1

\* C16 (as claimed, on a pool that has slots): a settled handle has the
\* outcome its own unit's deferred was fired with, so that deferred was fired;
\* and a settled handle stays as it is.
C16_HandleHasUnitOutcome ==
    /\ [](slots >= 1 =>
            \A j \in Submitted :
                pool_d[j].called =>
                    (fired[j] # "none" /\ pool_d[j] = Fired(fired[j], j)))
    /\ [][\A j \in Jobs : pool_d[j].called => pool_d'[j] = pool_d[j]]_vars

\* C16 (amended): a settled handle has the value or the failure its own
\* unit's deferred was fired with, unless its holder cancelled it first: then
\* it has the cancellation.  A deferred fired by the unit with a value or a
\* failure settles the handle in the same turn unless the handle was
\* cancelled, and a settled handle stays as it is.
C16_HandleHasUnitOutcomeOrCancellation ==
    /\ [](\A j \in Submitted :
            /\ pool_d[j].called =>
                  \/ pool_d[j] = Fired("cancelled", j)
                  \/ /\ fired[j] \in {"value", "failure"}
                     /\ pool_d[j] = Fired(fired[j], j)
            /\ fired[j] \in {"value", "failure"} => pool_d[j].called
            /\ ~pool_d[j].called => fired[j] = "none")
    /\ [][\A j \in Jobs : pool_d[j].called => pool_d'[j] = pool_d[j]]_vars

\* One handle has its unit's value, one its unit's failure, and one was
\* cancelled while its job was queued and has the cancellation.
C16_Witness ==
    /\ \E j \in Submitted : pool_d[j] = Fired("value", j) /\ fired[j] = "value"
    /\ \E j \in Submitted :
          /\ pool_d[j] = Fired("failure", j) /\ fired[j] = "failure"
          /\ kwargs[j] = "runs"
    /\ \E j \in Submitted : pool_d[j] = Fired("cancelled", j) /\ fired[j] = "none"

\* C17: the turn in which the handle of a running job is cancelled removes
\* its unit from the active set, cancels the unit's deferred and calls its
\* close(), each once; the job's slot issues a queue.get() in that turn and,
\* when a job was queued, starts the oldest queued job.  Afterwards the job
\* is never cleaned up again.
C17_CancelledJobCleanedUp ==
    /\ [][\A j \in Jobs :
            (/\ ~pool_d[j].called /\ pool_d'[j].kind = "cancelled"
             /\ deferred[j] = "pending" /\ chained[j] # {}) =>
                /\ j \in active /\ j \notin active'
                /\ deferred'[j] = "called" /\ fired'[j] = "cancelled"
                /\ ncleanup'[j] = 1 /\ nclose'[j] = 1
                /\ \A o \in {"remove", "cancel", "close"} :
                      Cardinality({i \in 1..Len(events') :
                                      events'[i].op = o /\ events'[i].job = j}) = 1
                /\ \E i \in 1..Len(events') :
                      /\ events'[i] = [op |-> "get", slot |-> CHOOSE s \in chained[j] : TRUE]
                      /\ pending # <<>> =>
                            /\ i < Len(events')
                            /\ events'[i + 1] =
                                  [op |-> "init", job |-> Head(pending),
                                   slot |-> CHOOSE s \in chained[j] : TRUE]]_vars
    /\ [](\A j \in Submitted :
            (pool_d[j].kind = "cancelled" /\ nstart[j] >= 1) =>
                /\ j \notin active /\ deferred[j] = "called"
                /\ ncleanup[j] = 1 /\ nclose[j] = 1)

\* On a one-slot pool job 1 was cancelled while its unit ran, and job 2,
\* queued behind it, was run by the slot and succeeded.
C17_Witness ==
    /\ slots = 1
    /\ pool_d[1] = Fired("cancelled", 1) /\ fired[1] = "cancelled"
    /\ nstart[1] = 1 /\ nclose[1] = 1
    /\ njobs >= 2 /\ attached[2] = {0} /\ pool_d[2] = Fired("value", 2)

\* C18: between reactor turns a job is in the queue only while no slot waits
\* on queue.get(), and the queue is empty whenever the active set has fewer
\* units than the pool has slots.
C18_WorkConserving ==
    /\ pending # <<>> => waiting = <<>>
    /\ Cardinality(active) < slots => pending = <<>>

\* On a one-slot pool job 1 ended, the slot took job 2, which is running, and
\* job 3 is queued behind it.
C18_Witness ==
    /\ slots = 1
    /\ pool_d[1].called /\ nclose[1] = 1
    /\ active = {2} /\ pending = <<3>> /\ waiting = <<>>

\* C19 (as claimed): a job that a slot took from the queue and whose unit
\* could not be built has its handle settled with a failure by the end of
\* that turn.
C19_BuildFaultSettlesHandle ==
    \A j \in Range(startOrder) :
        rendercls[j] = "raises" => (pool_d[j].called /\ pool_d[j].kind = "failure")

\* C20 (as claimed): a unit that was closed was started before: no start()
\* of a job follows the close() of that job, within a turn or in a later one.
C20_StartBeforeClose ==
    /\ [](\A j \in Jobs : nclose[j] >= 1 => nstart[j] >= 1)
    /\ [](\A i \in 1..Len(events) :
            events[i].op = "start" =>
                \A c \in 1..(i - 1) :
                    ~(events[c].op = "close" /\ events[c].job = events[i].job))
    /\ [][\A j \in Jobs : nclose[j] >= 1 => nstart'[j] = nstart[j]]_vars

====
